---- MODULE Spec2Model ----
(***************************************************************************)
(* A model of tentacle's dispatch gateway (tentacle/endpointworker.py,     *)
(* EndpointConsumer.on_message) and of its request/response client         *)
(* (tests/utils.py, Publisher).                                            *)
(*                                                                         *)
(* Python dicts are functions whose domain is the set of keys present;     *)
(* Python's None is the record None.                                       *)
(***************************************************************************)
EXTENDS Integers, Sequences, FiniteSets, TLC

\* ------------------------------------------------------------------ bounds
MaxDeliveries == 3      \* messages the broker delivers to the gateway

\* ------------------------------------------------------- python primitives
None == [none |-> TRUE]

EmptyDict == [k \in {} |-> k]

\* dict.get(key): the value, or None when the key is absent
Get(d, k) == IF k \in DOMAIN d THEN d[k] ELSE None

\* ------------------------------------------------------------------ gateway
VARIABLES
    serializer_cfg,   \* Config.CELERY_TASK_SERIALIZER
    messages,         \* delivery tag -> [body, state] of every delivered message
    events,           \* what on_message did, in program order
    pool,             \* task payloads submitted to the worker pool, not yet run
    crashed           \* an exception has propagated out of on_message

gvars == <<serializer_cfg, messages, events, pool, crashed>>

\* the publisher's state (described with the publisher below)
VARIABLES
    pubs,             \* the Publisher instances that exist
    needs_response,   \* p -> class attribute needs_response
    corr_id,          \* p -> self.corr_id
    response,         \* p -> self.response
    pc,               \* p -> position of the thread running call()
    budget,           \* p -> call() invocations the caller has yet to make
    elapsed,          \* p -> seconds since the current call() started
    waited,           \* p -> seconds the current drain_events() has blocked
    received,         \* p -> messages handed to on_response in this call
    ret,              \* p -> value returned by the last finished call()
    outcome,          \* p -> how the last call() ended
    conn_open,        \* instances holding an open broker connection
    consumers,        \* instances with a consumer on their reply queue
    declared,         \* names of the reply queues that exist at the broker
    queue,            \* queue name -> messages held, oldest first
    published,        \* requests published, in order
    sent              \* number of messages put on reply queues so far

pvars == <<pubs, needs_response, corr_id, response, pc, budget, elapsed,
           waited, received, ret, outcome, conn_open, consumers, declared,
           queue, published, sent>>

\* construction of Publisher instances
VARIABLES
    attrs,            \* p -> user, password, _args, _kwargs, payload of instance p
    ctor,             \* arguments and result of the last Publisher(...) expression
    attempts          \* number of Publisher(...) expressions evaluated

cvars == <<attrs, ctor, attempts>>

\* the task payloads a producer may put under 'task'
TaskPayloads == {EmptyDict, [id |-> "t1"], [id |-> "t2"]}

\* the action names a producer may send
Actions == {"sync", "purge", "chord"}

\* decoded envelopes: any subset of the keys 'action' and 'task'
Payloads ==
    {EmptyDict}
    \cup {[action |-> a] : a \in Actions}
    \cup {[task |-> t] : t \in TaskPayloads}
    \cup {[action |-> a, task |-> t] : a \in Actions, t \in TaskPayloads}

\* raw message bodies: a payload in one of the two encodings, or bytes that
\* no codec decodes
RawBodies ==
    {[enc |-> e, data |-> p] : e \in {"json", "msgpack"}, p \in Payloads}
    \cup {[enc |-> "garbage", data |-> EmptyDict]}

\* app.tasks: the registry; only 'sync' is an endpoint task, the other
\* entries are the task queue's built-ins
app_tasks == {<<"tentacle.endpointtasks", "sync">>, <<"celery", "chord">>}

\* 'tentacle.endpointtasks.' + action
TaskName(action) == <<"tentacle.endpointtasks", action>>

\* json_loads / msgpack_loads chosen by the configured serializer; a body in
\* the other encoding (or garbage) does not decode
SerializerAnyCodec(cfg, body) ==
    IF body.enc \in {"json", "msgpack"}
    THEN [ok |-> TRUE, payload |-> body.data]
    ELSE [ok |-> FALSE, payload |-> EmptyDict]

Serializer(cfg, body) ==
    LET codec == IF cfg = "json" THEN "json" ELSE "msgpack"
    IN  IF body.enc = codec
        THEN [ok |-> TRUE, payload |-> body.data]
        ELSE [ok |-> FALSE, payload |-> EmptyDict]

Ev(tag, op, arg) == [tag |-> tag, op |-> op, arg |-> arg]

\* lines 35-37: the envelope has no action, the message is rejected
RejectBranchAcks(tag) == <<Ev(tag, "ack", "")>>

\* lines 35-37 running on into the acknowledgment of line 46
RejectBranchAlsoAcks(tag) == <<Ev(tag, "reject", ""), Ev(tag, "ack", "")>>

\* lines 35-37: log the payload, message.reject()
RejectBranch(tag) == <<Ev(tag, "reject", "")>>

\* lines 39-46 with the acknowledgment issued before the submission
RouteBranchAckFirst(tag, payload, delayOk) ==
    LET action == Get(payload, "action")
        task_payload == Get(payload, "task")
        name == TaskName(action)
    IN  IF task_payload = None
        THEN <<Ev(tag, "raise", "TypeError")>>
        ELSE IF "id" \notin DOMAIN task_payload
        THEN <<Ev(tag, "raise", "KeyError")>>
        ELSE IF name \notin app_tasks
        THEN <<Ev(tag, "ack", ""), Ev(tag, "raise", "NotRegistered")>>
        ELSE IF ~delayOk
        THEN <<Ev(tag, "ack", ""), Ev(tag, "lookup", name),
               Ev(tag, "raise", "OperationalError")>>
        ELSE <<Ev(tag, "ack", ""), Ev(tag, "lookup", name),
               Ev(tag, "delay", [name |-> name, payload |-> task_payload])>>

\* lines 39-46: log the action and the task id, look the handler up in the
\* registry, submit the task payload, acknowledge.  task_payload['id'] in the
\* log call raises TypeError on None and KeyError on a dict without 'id';
\* app.tasks[...] raises NotRegistered on an unknown name; delay() raises
\* when the task cannot be submitted.
RouteBranch(tag, payload, delayOk) ==
    LET action == Get(payload, "action")
        task_payload == Get(payload, "task")
        name == TaskName(action)
    IN  IF task_payload = None
        THEN <<Ev(tag, "raise", "TypeError")>>
        ELSE IF "id" \notin DOMAIN task_payload
        THEN <<Ev(tag, "raise", "KeyError")>>
        ELSE IF name \notin app_tasks
        THEN <<Ev(tag, "raise", "NotRegistered")>>
        ELSE IF ~delayOk
        THEN <<Ev(tag, "lookup", name), Ev(tag, "raise", "OperationalError")>>
        ELSE <<Ev(tag, "lookup", name),
               Ev(tag, "delay", [name |-> name, payload |-> task_payload]),
               Ev(tag, "ack", "")>>

\* The effects of EndpointConsumer.on_message on one message, in program
\* order; delayOk is whether the handler's delay() manages to submit.
OnMessageEffects(cfg, tag, body, delayOk) ==
    LET dec == Serializer(cfg, body)
        payload == dec.payload
    IN  IF ~dec.ok
        THEN <<Ev(tag, "raise", "DecodeError")>>
        ELSE IF "action" \notin DOMAIN payload
        THEN RejectBranch(tag)
        ELSE RouteBranch(tag, payload, delayOk)

HasOp(effects, op) == \E i \in 1..Len(effects) : effects[i].op = op

Last(s) == s[Len(s)]

\* message state after on_message, as kombu's Message tracks it
MessageState(effects) ==
    IF HasOp(effects, "ack") THEN "ACK"
    ELSE IF HasOp(effects, "reject") THEN "REJECTED"
    ELSE "RECEIVED"

Submitted(effects) ==
    SelectSeq(effects, LAMBDA e : e.op = "delay")

RECURSIVE Args(_)
Args(s) == IF s = <<>> THEN <<>> ELSE <<s[1].arg>> \o Args(Tail(s))

GatewayInit ==
    /\ serializer_cfg \in {"json", "msgpack"}
    /\ messages = <<>>
    /\ events = <<>>
    /\ pool = <<>>
    /\ crashed = FALSE

\* the broker delivers a message and the consumer runs on_message on it
on_message ==
    /\ ~crashed
    /\ Len(messages) < MaxDeliveries
    /\ \E body \in RawBodies, delayOk \in BOOLEAN :
        LET tag == Len(messages) + 1
            eff == OnMessageEffects(serializer_cfg, tag, body, delayOk)
        IN  /\ messages' = Append(messages, [body |-> body, state |-> MessageState(eff)])
            /\ events' = events \o eff
            /\ pool' = pool \o Args(Submitted(eff))
            /\ crashed' = (Last(eff).op = "raise")
    /\ UNCHANGED <<serializer_cfg, pvars, cvars>>

\* the worker pool runs a submitted task, independently of the gateway
RunTask ==
    /\ pool # <<>>
    /\ pool' = Tail(pool)
    /\ UNCHANGED <<serializer_cfg, messages, events, crashed, pvars, cvars>>

GatewayNext == on_message \/ RunTask

\* ---------------------------------------------------------------- publisher
MaxResponses == 2       \* messages other parties put on reply queues
MaxCalls == 2           \* call() invocations per Publisher instance
MaxClock == 6           \* seconds a call() is observed for

\* Publisher.timeout, in seconds
timeout == 5

Instances == {1, 2}

\* str(uuid.uuid4()): instance n draws the n-th identifier
Uuid(n) == [uuid |-> n]

QueueNames == {Uuid(n) : n \in Instances}

\* response bodies a remote side may send
Bodies == {EmptyDict, [status |-> "RETRY"], [status |-> "OK", value |-> 42], [value |-> 42]}

\* AMQP properties of a response: the correlation id it is addressed to
ResponseProperties == {[correlation_id |-> u] : u \in QueueNames}

ResponseMessages == [properties : ResponseProperties, body : Bodies]

\* Python truth value of self.response: None and the empty dict are false
Truthy(x) == x # None /\ x # EmptyDict

\* on_response that stores every body bearing the right correlation id
OnResponseNoFilter(self_corr_id, self_response, body, message) ==
    IF self_corr_id = Get(message.properties, "correlation_id")
    THEN body
    ELSE self_response

\* on_response that does not look at the correlation id
OnResponseAnyCorrelation(self_corr_id, self_response, body, message) ==
    IF "status" \in DOMAIN body /\ body["status"] = "RETRY"
    THEN self_response
    ELSE body

\* on_response that resets the slot on a message it does not accept
OnResponseClearsSlot(self_corr_id, self_response, body, message) ==
    IF self_corr_id = Get(message.properties, "correlation_id")
       /\ ~("status" \in DOMAIN body /\ body["status"] = "RETRY")
    THEN body
    ELSE None

\* Publisher.on_response: the new value of self.response
on_response(self_corr_id, self_response, body, message) ==
    IF self_corr_id = Get(message.properties, "correlation_id")
    THEN IF "status" \in DOMAIN body /\ body["status"] = "RETRY"
         THEN self_response
         ELSE body
    ELSE self_response

\* KrakenPublisher.get_payload: the envelope built from the correlation id
\* and from `self._args or self._kwargs`
get_payload(cid, args, kwargs) ==
    [id |-> cid,
     kwargs |-> [id |-> cid, params |-> IF args # <<>> THEN args ELSE kwargs]]

\* the class attributes and constructor arguments of the instances that
\* exist from the start: both credentials set, no arguments
DefaultAttrs(cid) ==
    [user |-> [str |-> "guest"], password |-> [str |-> "secret"],
     args |-> <<>>, kwargs |-> EmptyDict,
     payload |-> get_payload(cid, <<>>, EmptyDict)]

\* no Publisher(...) expression evaluated yet
NoCtor == [result |-> "none"]

\* Publisher.get_properties
get_properties(p) ==
    IF needs_response[p]
    THEN [delivery_mode |-> 2, correlation_id |-> corr_id[p], reply_to |-> corr_id[p]]
    ELSE [delivery_mode |-> 2]

\* leaving `with Connection(self.url) as conn` without releasing it
ReleaseConnectionLeaks(open, p) == open

\* leaving `with Connection(self.url) as conn`: the connection is released
ReleaseConnection(open, p) == open \ {p}

\* leaving `with conn.Consumer(...)`: the consumer is cancelled
CancelConsumer(cons, p) == cons \ {p}

\* an auto_delete queue goes away with its last consumer
AutoDelete(decl, cons, p) ==
    IF \E o \in cons \ {p} : corr_id[o] = corr_id[p]
    THEN decl
    ELSE decl \ {corr_id[p]}

\* the instances ps after construction, each with ncalls call() invocations
\* ahead of it
PublisherInit(ps, modes, ncalls) ==
    /\ pubs = ps
    /\ needs_response \in [ps -> modes]
    /\ corr_id = [p \in ps |-> IF needs_response[p] THEN Uuid(p) ELSE None]
    /\ response = [p \in ps |-> None]
    /\ pc = [p \in ps |-> "idle"]
    /\ budget = [p \in ps |-> ncalls]
    /\ elapsed = [p \in ps |-> 0]
    /\ waited = [p \in ps |-> 0]
    /\ received = [p \in ps |-> <<>>]
    /\ ret = [p \in ps |-> None]
    /\ outcome = [p \in ps |-> "none"]
    /\ conn_open = {}
    /\ consumers = {}
    /\ declared = {}
    /\ queue = [q \in QueueNames |-> <<>>]
    /\ published = <<>>
    /\ sent = 0
    /\ attrs = [p \in ps |-> DefaultAttrs(corr_id[p])]
    /\ ctor = NoCtor
    /\ attempts = 0

\* call() ends: both with-blocks are left, the value v is returned (or the
\* exception propagates)
Finish(p, how, v) ==
    /\ pc' = [pc EXCEPT ![p] = "done"]
    /\ outcome' = [outcome EXCEPT ![p] = how]
    /\ ret' = [ret EXCEPT ![p] = v]
    /\ consumers' = CancelConsumer(consumers, p)
    /\ declared' = IF p \in consumers THEN AutoDelete(declared, consumers, p) ELSE declared
    /\ queue' = IF p \in consumers /\ AutoDelete(declared, consumers, p) # declared
                THEN [queue EXCEPT ![corr_id[p]] = <<>>]
                ELSE queue
    /\ conn_open' = ReleaseConnection(conn_open, p)
    /\ elapsed' = [elapsed EXCEPT ![p] = 0]
    /\ waited' = [waited EXCEPT ![p] = 0]

\* call() that keeps whatever an earlier invocation stored
ClearSlotKeeps(resp, p) == resp

\* line 85: self.response = None
ClearSlot(resp, p) == [resp EXCEPT ![p] = None]

\* lines 84-98: enter the connection block, clear the result slot, build the
\* exchange, the queue object, the producer and the message
CallStart(p) ==
    /\ pc[p] \in {"idle", "done"}
    /\ budget[p] > 0
    /\ budget' = [budget EXCEPT ![p] = @ - 1]
    /\ conn_open' = conn_open \cup {p}
    /\ response' = ClearSlot(response, p)
    /\ received' = [received EXCEPT ![p] = <<>>]
    /\ pc' = [pc EXCEPT ![p] = "publish"]
    /\ UNCHANGED <<pubs, needs_response, corr_id, elapsed, waited, ret, outcome,
                   consumers, declared, queue, published, sent,
                   gvars, cvars>>

\* line 101 with the test left out: every call goes on to consume
AwaitsResponseAlways(p) == TRUE

\* line 101: `if not self.needs_response: return None`
AwaitsResponse(p) == needs_response[p]

\* lines 99-102: publish; a fire-and-forget call returns None here
Publish(p) ==
    /\ pc[p] = "publish"
    /\ published' = Append(published, [by |-> p, body |-> attrs[p].payload,
                                        properties |-> get_properties(p)])
    /\ IF ~AwaitsResponse(p)
       THEN Finish(p, "returned", None)
       ELSE /\ pc' = [pc EXCEPT ![p] = "consume"]
            /\ UNCHANGED <<outcome, ret, consumers, declared, queue, conn_open,
                           elapsed, waited>>
    /\ UNCHANGED <<pubs, needs_response, corr_id, response, budget, received, sent,
                   gvars, cvars>>

\* line 99: producer.publish raises
PublishFails(p) ==
    /\ pc[p] = "publish"
    /\ Finish(p, "raised", None)
    /\ UNCHANGED <<pubs, needs_response, corr_id, response, budget, received,
                   published, sent,
                   gvars, cvars>>

\* lines 104-109: the consumer declares the reply queue and starts consuming;
\* self.response is None, so the loop is entered and drain_events blocks
Consume(p) ==
    /\ pc[p] = "consume"
    /\ declared' = declared \cup {corr_id[p]}
    /\ consumers' = consumers \cup {p}
    /\ pc' = [pc EXCEPT ![p] = "drain"]
    /\ UNCHANGED <<pubs, needs_response, corr_id, response, budget, elapsed,
                   waited, received, ret, outcome, conn_open, queue, published,
                   sent,
                   gvars, cvars>>

\* lines 108-109, 114: drain_events hands the oldest queued message to
\* on_response; the loop exits when self.response is true, else it blocks in
\* a new drain_events(timeout=self.timeout)
DrainEvent(p) ==
    /\ pc[p] = "drain"
    /\ queue[corr_id[p]] # <<>>
    /\ LET message == Head(queue[corr_id[p]])
           r == on_response(corr_id[p], response[p], message.body, message)
       IN  /\ response' = [response EXCEPT ![p] = r]
           /\ received' = [received EXCEPT ![p] = Append(@, message)]
           /\ IF Truthy(r)
              THEN Finish(p, "returned", r)
              ELSE /\ queue' = [queue EXCEPT ![corr_id[p]] = Tail(@)]
                   /\ waited' = [waited EXCEPT ![p] = 0]
                   /\ UNCHANGED <<pc, outcome, ret, consumers, declared,
                                  conn_open, elapsed>>
    /\ UNCHANGED <<pubs, needs_response, corr_id, budget, published, sent,
                   gvars, cvars>>

\* lines 110-112: drain_events found nothing for self.timeout seconds
DrainTimeout(p) ==
    /\ pc[p] = "drain"
    /\ queue[corr_id[p]] = <<>>
    /\ waited[p] >= timeout
    /\ Finish(p, "timeout", None)
    /\ UNCHANGED <<pubs, needs_response, corr_id, response, budget, received,
                   published, sent,
                   gvars, cvars>>

\* line 109: drain_events raises something other than TimeoutError
DrainFails(p) ==
    /\ pc[p] = "drain"
    /\ Finish(p, "raised", None)
    /\ UNCHANGED <<pubs, needs_response, corr_id, response, budget, received,
                   published, sent,
                   gvars, cvars>>

\* some party publishes a response to an existing reply queue
Respond ==
    /\ sent < MaxResponses
    /\ \E q \in declared, m \in ResponseMessages :
        queue' = [queue EXCEPT ![q] = Append(@, m)]
    /\ sent' = sent + 1
    /\ UNCHANGED <<pubs, needs_response, corr_id, response, pc, budget, elapsed,
                   waited, received, ret, outcome, conn_open, consumers,
                   declared, published,
                   gvars, cvars>>

\* the reply queues that published requests name in reply_to
ReplyTargets ==
    {published[i].properties["reply_to"] :
        i \in {j \in 1..Len(published) : "reply_to" \in DOMAIN published[j].properties}}

\* a remote side answers a published request whose reply queue does not
\* exist (not declared yet, or deleted already): the broker drops the message
RespondDropped ==
    /\ sent < MaxResponses
    /\ ReplyTargets \ declared # {}
    /\ sent' = sent + 1
    /\ UNCHANGED <<pubs, needs_response, corr_id, response, pc, budget, elapsed,
                   waited, received, ret, outcome, conn_open, consumers,
                   declared, queue, published,
                   gvars, cvars>>

\* a second passes while some call blocks in drain_events; no drain_events
\* outlives its timeout
Tick ==
    /\ \E p \in pubs : pc[p] = "drain"
    /\ \A p \in pubs : pc[p] \in {"idle", "done", "drain"}
    /\ \A p \in pubs : pc[p] = "drain" => (waited[p] < timeout /\ elapsed[p] < MaxClock)
    /\ elapsed' = [p \in pubs |-> IF pc[p] = "drain" THEN elapsed[p] + 1 ELSE elapsed[p]]
    /\ waited' = [p \in pubs |-> IF pc[p] = "drain" THEN waited[p] + 1 ELSE waited[p]]
    /\ UNCHANGED <<pubs, needs_response, corr_id, response, pc, budget,
                   received, ret, outcome, conn_open, consumers, declared,
                   queue, published, sent,
                   gvars, cvars>>

PublisherNext ==
    \/ \E p \in pubs : CallStart(p)
    \/ \E p \in pubs : Publish(p)
    \/ \E p \in pubs : PublishFails(p)
    \/ \E p \in pubs : Consume(p)
    \/ \E p \in pubs : DrainEvent(p)
    \/ \E p \in pubs : DrainTimeout(p)
    \/ \E p \in pubs : DrainFails(p)
    \/ Respond
    \/ RespondDropped
    \/ Tick

\* ------------------------------------------------------------- construction
MaxConstructions == 2   \* Publisher(...) expressions the caller evaluates

\* class attributes user / password: unset (None) or a string
UserValues == {None, [str |-> "guest"]}

PasswordValues == {None, [str |-> "secret"]}

\* positional arguments of the constructor
ArgValues == {<<>>, <<1, 2>>}

\* a payload handed over ready-made in the `payload` keyword
Prebuilt == [task |-> "custom"]

\* keyword arguments of the constructor
KwargValues == {EmptyDict, [x |-> 1], [payload |-> Prebuilt], [x |-> 1, payload |-> Prebuilt]}

\* line 41: the credentials test
MissingCredentials(user, password) == user = None /\ password = None

\* line 49: kwargs.pop('payload', None) leaves the other keywords
PopPayload(kwargs) == [k \in DOMAIN kwargs \ {"payload"} |-> kwargs[k]]

\* __init__ without the test of line 52
ArgsAndKwargsUnchecked(args, kwargs) == FALSE

\* line 52: `if args and kwargs`
ArgsAndKwargs(args, kwargs) == args # <<>> /\ kwargs # EmptyDict

\* Publisher.__init__: whether construction raises
InitRaises(user, password, has_exchange, args, kwargs) ==
    \/ MissingCredentials(user, password)
    \/ ~has_exchange
    \/ ArgsAndKwargs(args, PopPayload(kwargs))

\* a caller evaluates Publisher(*args, **kwargs) on a class with the given
\* attributes; on success the instance exists and is called once (as
\* kraken_hit and nautilus_hit do)
Construct ==
    /\ attempts < MaxConstructions
    /\ pubs = {}
    /\ attempts' = attempts + 1
    /\ \E nr \in BOOLEAN, user \in UserValues, password \in PasswordValues,
          has_exchange \in BOOLEAN, args \in ArgValues, kwargs \in KwargValues :
        LET p == 1
            raises == InitRaises(user, password, has_exchange, args, kwargs)
            cid == IF nr THEN Uuid(p) ELSE None
            payload == IF "payload" \in DOMAIN kwargs
                       THEN kwargs["payload"]
                       ELSE get_payload(cid, args, PopPayload(kwargs))
        IN  /\ ctor' = [result |-> IF raises THEN "raised" ELSE "ok",
                        user |-> user, password |-> password,
                        has_exchange |-> has_exchange,
                        args |-> args, kwargs |-> kwargs]
            /\ IF raises
               THEN UNCHANGED <<pubs, needs_response, corr_id, response, pc,
                                budget, elapsed, waited, received, ret, outcome,
                                attrs>>
               ELSE /\ pubs' = {p}
                    /\ needs_response' = [q \in {p} |-> nr]
                    /\ corr_id' = [q \in {p} |-> cid]
                    /\ response' = [q \in {p} |-> None]
                    /\ pc' = [q \in {p} |-> "idle"]
                    /\ budget' = [q \in {p} |-> 1]
                    /\ elapsed' = [q \in {p} |-> 0]
                    /\ waited' = [q \in {p} |-> 0]
                    /\ received' = [q \in {p} |-> <<>>]
                    /\ ret' = [q \in {p} |-> None]
                    /\ outcome' = [q \in {p} |-> "none"]
                    /\ attrs' = [q \in {p} |->
                                  [user |-> user, password |-> password,
                                   args |-> args, kwargs |-> PopPayload(kwargs),
                                   payload |-> payload]]
    /\ UNCHANGED <<conn_open, consumers, declared, queue, published, sent, gvars>>

ConstructNext ==
    \/ Construct
    \/ \E p \in pubs : CallStart(p)
    \/ \E p \in pubs : Publish(p)
    \/ \E p \in pubs : PublishFails(p)
    \/ \E p \in pubs : Consume(p)
    \/ \E p \in pubs : DrainEvent(p)
    \/ \E p \in pubs : DrainTimeout(p)
    \/ \E p \in pubs : DrainFails(p)
    \/ Respond
    \/ RespondDropped
    \/ Tick

\* ----------------------------------------------------------- specifications
vars == <<gvars, pvars, cvars>>

\* the gateway process, no Publisher instance in existence
GatewayOnlyInit ==
    /\ GatewayInit
    /\ PublisherInit({}, {TRUE}, 0)

SpecGateway == GatewayOnlyInit /\ [][GatewayNext]_vars

\* one Publisher instance, response-awaiting or fire-and-forget; the gateway
\* process has consumed nothing
CallInit ==
    /\ PublisherInit({1}, BOOLEAN, MaxCalls)
    /\ serializer_cfg = "json"
    /\ messages = <<>>
    /\ events = <<>>
    /\ pool = <<>>
    /\ crashed = FALSE

SpecCall == CallInit /\ [][PublisherNext]_vars

\* two response-awaiting Publisher instances, one call() each
ConcurrentInit ==
    /\ PublisherInit(Instances, {TRUE}, 1)
    /\ serializer_cfg = "json"
    /\ messages = <<>>
    /\ events = <<>>
    /\ pool = <<>>
    /\ crashed = FALSE

SpecConcurrent == ConcurrentInit /\ [][PublisherNext]_vars

\* no Publisher instance yet: the caller constructs one and calls it
ConstructInit ==
    /\ PublisherInit({}, {TRUE}, 0)
    /\ serializer_cfg = "json"
    /\ messages = <<>>
    /\ events = <<>>
    /\ pool = <<>>
    /\ crashed = FALSE

SpecConstruct == ConstructInit /\ [][ConstructNext]_vars

\* ---------------------------------------------------------- gateway claims
EventsOf(tag) == SelectSeq(events, LAMBDA e : e.tag = tag)

Tags == 1..Len(messages)

\* the configured codec decodes the body of message tag
Decodes(tag) == messages[tag].body.enc = serializer_cfg

Envelope(tag) == messages[tag].body.data

\* C1: a delivered message whose decoded envelope has no 'action' key is
\* rejected, is never acknowledged, and nothing is submitted for it.
C1_RejectNoAction ==
    \A tag \in Tags :
        (Decodes(tag) /\ "action" \notin DOMAIN Envelope(tag)) =>
            /\ messages[tag].state = "REJECTED"
            /\ HasOp(EventsOf(tag), "reject")
            /\ ~HasOp(EventsOf(tag), "ack")
            /\ ~HasOp(EventsOf(tag), "delay")

C1_Witness ==
    \E tag \in Tags :
        /\ Decodes(tag)
        /\ Envelope(tag) = [task |-> [id |-> "t1"]]
        /\ messages[tag].state = "REJECTED"

\* C2: every acknowledgment is preceded, in program order, by a successful
\* registry lookup of 'tentacle.endpointtasks.<action>' and by the
\* submission of that message's task payload.
C2_AckAfterRoute ==
    \A i \in 1..Len(events) :
        events[i].op = "ack" =>
            LET tag == events[i].tag
                name == TaskName(Get(Envelope(tag), "action"))
            IN  /\ "action" \in DOMAIN Envelope(tag)
                /\ name \in app_tasks
                /\ \E j \in 1..(i - 1), k \in 1..(i - 1) :
                    /\ j < k
                    /\ events[j] = Ev(tag, "lookup", name)
                    /\ events[k].tag = tag
                    /\ events[k].op = "delay"
                    /\ events[k].arg = [name |-> name, payload |-> Get(Envelope(tag), "task")]

C2_Witness ==
    \E i \in 1..Len(events) :
        /\ events[i].op = "ack"
        /\ i > 2
        /\ events[i - 1].op = "delay"
        /\ events[i - 2].op = "lookup"

\* C3 (as claimed): a message whose action resolves to a registered handler
\* is submitted exactly once and acknowledged, whatever its 'task' is,
\* whenever the submission itself does not fail.
C3_RoutedWhateverTask ==
    \A tag \in Tags :
        (/\ Decodes(tag)
         /\ "action" \in DOMAIN Envelope(tag)
         /\ TaskName(Envelope(tag)["action"]) \in app_tasks
         /\ Ev(tag, "raise", "OperationalError") # Last(EventsOf(tag))) =>
            /\ Len(Submitted(EventsOf(tag))) = 1
            /\ Last(EventsOf(tag)).op = "ack"
            /\ messages[tag].state = "ACK"

\* C4 (as claimed): a message whose action resolves to no registered handler
\* ends on_message with the propagated lookup failure, neither acknowledged
\* nor rejected, nothing submitted.
C4_UnknownActionLookupFailure ==
    \A tag \in Tags :
        (/\ Decodes(tag)
         /\ "action" \in DOMAIN Envelope(tag)
         /\ TaskName(Envelope(tag)["action"]) \notin app_tasks) =>
            /\ Last(EventsOf(tag)) = Ev(tag, "raise", "NotRegistered")
            /\ messages[tag].state = "RECEIVED"
            /\ ~HasOp(EventsOf(tag), "delay")

\* C5: when the body does not decode, the failure propagates out of
\* on_message, the message is not acknowledged and nothing is submitted.
C5_DecodeFailurePropagates ==
    \A tag \in Tags :
        ~Decodes(tag) =>
            /\ EventsOf(tag) = <<Ev(tag, "raise", "DecodeError")>>
            /\ messages[tag].state # "ACK"
            /\ crashed

C5_Witness ==
    \E tag \in Tags :
        /\ messages[tag].body.enc = "msgpack"
        /\ serializer_cfg = "json"
        /\ "action" \in DOMAIN Envelope(tag)
        /\ crashed

\* -------------------------------------------------------- publisher claims
\* message m carries the correlation id of instance p
Addressed(p, m) == Get(m.properties, "correlation_id") = corr_id[p]

IsRetry(body) == "status" \in DOMAIN body /\ body["status"] = "RETRY"

HasOtherStatus(body) == "status" \in DOMAIN body /\ body["status"] # "RETRY"

\* the first n-1 messages received by p are RETRY notices addressed to it
RetriesBefore(p, n) ==
    \A i \in 1..(n - 1) : Addressed(p, received[p][i]) /\ IsRetry(received[p][i].body)

\* C6: call() never returns a RETRY response; after any number of RETRY
\* notices addressed to the call, a response addressed to it with another
\* status ends the call and is the value returned.
C6_RetryNeverSurfaced ==
    \A p \in pubs :
        /\ ret[p] # None => ~IsRetry(ret[p])
        /\ \A n \in 1..Len(received[p]) :
            (/\ RetriesBefore(p, n)
             /\ Addressed(p, received[p][n])
             /\ HasOtherStatus(received[p][n].body)) =>
                /\ n = Len(received[p])
                /\ pc[p] = "done"
                /\ outcome[p] = "returned"
                /\ ret[p] = received[p][n].body

C6_Witness ==
    \E p \in pubs :
        /\ Len(received[p]) = 2
        /\ RetriesBefore(p, 2)
        /\ Addressed(p, received[p][2])
        /\ pc[p] = "done"
        /\ ret[p] = [status |-> "OK", value |-> 42]

\* C7 (as claimed): every response addressed to the call whose status is
\* not RETRY, a body without any field included, is terminal: once received,
\* call() stops waiting and returns it.
C7_NonRetryIsTerminal ==
    \A p \in pubs :
        \A n \in 1..Len(received[p]) :
            (Addressed(p, received[p][n]) /\ ~IsRetry(received[p][n].body)) =>
                /\ n = Len(received[p])
                /\ pc[p] = "done"
                /\ outcome[p] = "returned"
                /\ ret[p] = received[p][n].body

\* C8 (as claimed): while only RETRY notices and responses with a foreign
\* correlation id arrive, call() does not wait beyond `timeout` seconds from
\* its start.
C8_TimeoutFromCallStart ==
    \A p \in pubs :
        (/\ pc[p] = "drain"
         /\ \A i \in 1..Len(received[p]) :
              ~Addressed(p, received[p][i]) \/ IsRetry(received[p][i].body)) =>
            elapsed[p] <= timeout

\* C9: once call() has ended, by whatever path, its connection is closed,
\* its consumer is cancelled and its reply queue no longer exists.
C9_ResourcesReleased ==
    \A p \in pubs :
        pc[p] \in {"idle", "done"} =>
            /\ p \notin conn_open
            /\ p \notin consumers
            /\ corr_id[p] # None =>
                (corr_id[p] \notin declared /\ queue[corr_id[p]] = <<>>)

C9_Witness ==
    \E p \in pubs :
        /\ pc[p] = "done"
        /\ outcome[p] = "timeout"
        /\ received[p] # <<>>
        /\ published # <<>>

\* C10: with two calls in progress and responses arriving in any order on
\* either reply queue, the value a call returns is the body of a message
\* carrying its own correlation id, never the other call's.
C10_CorrelationIsolation ==
    \A p \in pubs :
        (pc[p] = "done" /\ outcome[p] = "returned" /\ ret[p] # None) =>
            /\ received[p] # <<>>
            /\ Last(received[p]).body = ret[p]
            /\ Addressed(p, Last(received[p]))
            /\ \A o \in pubs \ {p} : ~Addressed(o, Last(received[p]))

C10_Witness ==
    /\ pc[1] = "done"
    /\ outcome[1] = "returned"
    /\ ret[1] # None
    /\ \E i \in 1..Len(received[1]) : Addressed(2, received[1][i])
    /\ pc[2] = "drain"

\* ----------------------------------------------------- construction claims
\* C11 (as claimed): every invocation of call() uses a correlation id that
\* no earlier invocation used: no two published requests carry the same id.
C11_FreshCorrelationId ==
    \A i \in 1..Len(published), j \in 1..Len(published) :
        i # j => published[i].body["id"] # published[j].body["id"]

\* the last Publisher(...) expression had positional arguments and keyword
\* arguments (other than the ready-made payload)
CtorHasBoth ==
    /\ ctor.result # "none"
    /\ ctor.args # <<>>
    /\ \E k \in DOMAIN ctor.kwargs : k # "payload"

\* C12: a Publisher(...) expression with both positional and keyword
\* arguments raises; no instance comes to exist from it, so nothing is ever
\* connected or published with both.
C12_ArgsAndKwargsRejected ==
    /\ CtorHasBoth =>
        (ctor.result = "raised" /\ pubs = {} /\ conn_open = {} /\ published = <<>>)
    /\ \A p \in pubs : ~(attrs[p].args # <<>> /\ attrs[p].kwargs # EmptyDict)

C12_Witness ==
    /\ ctor.result = "raised"
    /\ ctor.args = <<1, 2>>
    /\ ctor.kwargs = [x |-> 1]
    /\ ctor.user # None
    /\ ctor.password # None
    /\ ctor.has_exchange

\* C13 (as claimed): a Publisher(...) expression on a class whose username
\* or password is None raises, so no call() connects or publishes with an
\* incomplete credential pair.
C13_MissingCredentialsRejected ==
    /\ (ctor.result # "none" /\ (ctor.user = None \/ ctor.password = None)) =>
        ctor.result = "raised"
    /\ \A p \in conn_open : attrs[p].user # None /\ attrs[p].password # None

\* ------------------------------------------------------------ call claims
\* C14: a fire-and-forget call() (needs_response false) never creates a
\* consumer, never enters the drain loop and never receives; it publishes on
\* one step only, and that step adds exactly one request and ends the call
\* with no result.
C14_FireAndForget ==
    [][\A p \in pubs : ~needs_response[p] =>
        /\ p \notin consumers'
        /\ pc'[p] \notin {"consume", "drain"}
        /\ received'[p] = <<>>
        /\ (pc[p] = "publish" /\ outcome'[p] = "returned" /\ pc'[p] = "done") =>
            /\ Len(published') = Len(published) + 1
            /\ Last(published').by = p
            /\ ret'[p] = None
            /\ p \notin conn_open'
        /\ (pc[p] # "publish" \/ pc'[p] # "done") =>
            (\A i \in 1..Len(published') :
                published'[i].by = p => i <= Len(published))]_vars

C14_Witness ==
    \E p \in pubs :
        /\ ~needs_response[p]
        /\ pc[p] = "done"
        /\ outcome[p] = "returned"
        /\ ret[p] = None
        /\ \E i \in 1..Len(published) : published[i].by = p
        /\ p \notin conn_open

\* the n-th message received by p is a terminal response: it carries p's
\* correlation id and its status is not RETRY
Terminal(p, n) ==
    Addressed(p, received[p][n]) /\ ~IsRetry(received[p][n].body)

\* C15 (as claimed): the value call() returns is the first terminal response
\* it received, in arrival order; a later terminal response is never the
\* value returned.
C15_FirstTerminalReturned ==
    \A p \in pubs :
        (pc[p] = "done" /\ outcome[p] = "returned" /\ ret[p] # None) =>
            \E n \in 1..Len(received[p]) :
                /\ Terminal(p, n)
                /\ \A i \in 1..(n - 1) : ~Terminal(p, i)
                /\ ret[p] = received[p][n].body

\* C16 (as claimed): a response-awaiting call() that has published its
\* request has its reply queue declared at the broker for as long as it runs.
C16_ReplyQueueBeforePublish ==
    \A p \in conn_open :
        (needs_response[p] /\ pc[p] \in {"consume", "drain"}) =>
            corr_id[p] \in declared

\* C17 (as claimed): every published request, in either mode, is persistent
\* and has correlation_id and reply_to set to the publisher's non-null
\* correlation id, which is also the id in the request envelope.
C17_RequestProperties ==
    \A i \in 1..Len(published) :
        LET m == published[i]
        IN  /\ m.properties["delivery_mode"] = 2
            /\ "correlation_id" \in DOMAIN m.properties
            /\ "reply_to" \in DOMAIN m.properties
            /\ m.properties["correlation_id"] = corr_id[m.by]
            /\ m.properties["reply_to"] = corr_id[m.by]
            /\ corr_id[m.by] # None
            /\ m.body["id"] = corr_id[m.by]

\* C18: when on_response runs on a message whose correlation id is not the
\* publisher's, or whose status is RETRY, the result slot keeps its value;
\* the slot changes only on a matching non-RETRY message, to its body.
C18_SlotFrame ==
    [][\A p \in pubs :
        (pc[p] = "drain" /\ Len(received'[p]) = Len(received[p]) + 1) =>
            LET m == Last(received'[p])
            IN  /\ (~Addressed(p, m) \/ IsRetry(m.body)) => response'[p] = response[p]
                /\ response'[p] # response[p] =>
                    (Addressed(p, m) /\ ~IsRetry(m.body) /\ response'[p] = m.body)]_vars

C18_Witness ==
    \E p \in pubs :
        /\ pc[p] = "drain"
        /\ Len(received[p]) = 2
        /\ Addressed(p, received[p][1])
        /\ received[p][1].body = EmptyDict
        /\ ~Addressed(p, received[p][2]) \/ IsRetry(received[p][2].body)
        /\ response[p] = EmptyDict

\* how many times the gateway issued op for the message tag
CountOp(tag, op) == Len(SelectSeq(events, LAMBDA e : e.tag = tag /\ e.op = op))

\* C19: for every delivered message the gateway acknowledges or rejects at
\* most once in all, submits to a handler at most once, and never submits a
\* message it rejected.
C19_AtMostOneSettlement ==
    \A tag \in Tags :
        /\ CountOp(tag, "ack") + CountOp(tag, "reject") <= 1
        /\ CountOp(tag, "delay") <= 1
        /\ CountOp(tag, "reject") > 0 => CountOp(tag, "delay") = 0

C19_Witness ==
    /\ \E tag \in Tags : CountOp(tag, "reject") = 1
    /\ \E tag \in Tags : CountOp(tag, "ack") = 1 /\ CountOp(tag, "delay") = 1
    /\ \E tag \in Tags : CountOp(tag, "ack") + CountOp(tag, "reject") = 0
    /\ crashed

\* C20: each call() starts from an empty result slot: the slot is None until
\* the call consumes, whatever it holds later is the body of a message this
\* invocation received, and so is a returned response; a call that times out
\* returns None.
C20_SlotClearedPerCall ==
    \A p \in pubs :
        /\ pc[p] \in {"publish", "consume"} => response[p] = None
        /\ (pc[p] = "drain" /\ response[p] # None) =>
            \E i \in 1..Len(received[p]) : received[p][i].body = response[p]
        /\ (pc[p] = "done" /\ outcome[p] = "returned" /\ ret[p] # None) =>
            \E i \in 1..Len(received[p]) : received[p][i].body = ret[p]
        /\ (pc[p] = "done" /\ outcome[p] = "timeout") => ret[p] = None

C20_Witness ==
    \E p \in pubs :
        /\ pc[p] = "drain"
        /\ ret[p] # None
        /\ response[p] = None
        /\ received[p] # <<>>

====
